---- MODULE Spec2Model ----
(***************************************************************************)
(* Grid aggregation engine of city-boundary-dashboard (src/indicators.py): *)
(* make_square_grid, aggregate_pois_to_grid and                            *)
(* aggregate_buildings_to_grid, over geometry on a lattice; the tag        *)
(* classifier pick (indicators.py, landuse.py); and validate_boundary and  *)
(* boundary_polygon_wgs84 (boundaries.py).                                 *)
(*                                                                         *)
(* Geometry.  Coordinates are metres in the projected CRS.  A polygon is   *)
(* the union of closed lattice tiles of side Step; a tile is named by its  *)
(* lower-left corner <<x, y>>.  Areas are exact: the area of a polygon is  *)
(* the number of its tiles times Step^2.  Values that the code holds as    *)
(* floats (km2, ratios, densities) are exact fractions [num, den]; den = 0 *)
(* stands for the float results of a division by zero (inf, NaN).          *)
(***************************************************************************)
EXTENDS Integers, Sequences, FiniteSets

\* Side of a lattice tile in metres: the default cell size of the grid.
DEFAULT_CELL_SIZE_M == 500
Step == DEFAULT_CELL_SIZE_M

\* m^2 per km^2: the 1e6 of `(cell_size_m * cell_size_m) / 1e6`.
M2_PER_KM2 == 1000000

\* The lattice is MaxCoord tiles wide and two tiles high.
MaxCoord == 3

\* Capacity of the list `squares`: appending beyond it is a MemoryError.
\* No tiling with a positive cell size needs more than one square per tile.
MaxSquares == MaxCoord * 2

VARIABLES boundary, cell_size_m, x, y, squares, grid, pois, poi_grid, pc

\* aggregate_buildings_to_grid: the building set, the grid argument of the
\* aggregation, and the table returned
VARIABLES buildings, grid_gdf, building_grid

\* The classifier: a feature's tags, the candidate keys, the position of
\* the loop in them, the category
VARIABLES tags, preferred, scan, category

\* validate_boundary: input rows, cleaned rows, report.
\* boundary_polygon_wgs84: its argument, the type of the union, and the
\* polygon returned (none when it raised)
VARIABLES vb_in, vb_out, vb_report, bp_in, bp_type, bp_out

buildingVars == <<buildings, grid_gdf, building_grid>>
classifierVars == <<tags, preferred, scan, category>>
validatorVars == <<vb_in, vb_out, vb_report, bp_in, bp_type, bp_out>>

vars == <<boundary, cell_size_m, x, y, squares, grid, pois, poi_grid, pc,
          buildingVars, classifierVars, validatorVars>>

----------------------------------------------------------------------------
(* Exact arithmetic for the float columns *)

RECURSIVE GCD(_, _)
GCD(a, b) == IF b = 0 THEN a ELSE GCD(b, a % b)

\* n / d as a float would hold it: a reduced fraction, 1/0 for inf, 0/0 for NaN.
Rat(n, d) ==
    IF d = 0 THEN [num |-> IF n = 0 THEN 0 ELSE 1, den |-> 0]
    ELSE LET g == GCD(n, d) IN [num |-> n \div g, den |-> d \div g]

\* a / b for two fractions
RatDiv(a, b) == Rat(a.num * b.den, a.den * b.num)

RatLeq(a, b) == a.num * b.den <= b.num * a.den

RatZero == Rat(0, 1)

IsFinite(a) == a.den # 0

\* a + b for two fractions
RatAdd(a, b) == Rat(a.num * b.den + b.num * a.den, a.den * b.den)

RECURSIVE SumRat(_)
SumRat(s) == IF s = <<>> THEN RatZero ELSE RatAdd(Head(s), SumRat(Tail(s)))

RECURSIVE SumSeq(_)
SumSeq(s) == IF s = <<>> THEN 0 ELSE Head(s) + SumSeq(Tail(s))

\* [f(s[1]), ..., f(s[n])]
MapSeq(s, f(_)) == [i \in 1..Len(s) |-> f(s[i])]

\* A table row with the columns of `extra` added (or overwritten)
WithColumns(r, extra) ==
    [f \in DOMAIN r \cup DOMAIN extra |->
        IF f \in DOMAIN extra THEN extra[f] ELSE r[f]]

----------------------------------------------------------------------------
(* Lattice geometry *)

TileOriginsX == {k * Step : k \in 0..(MaxCoord - 1)}
TileOriginsY == {0, Step}
AllTiles == TileOriginsX \X TileOriginsY

\* Lexicographic order on coordinate pairs
Less(a, b) == a[1] < b[1] \/ (a[1] = b[1] /\ a[2] < b[2])

MinOf(S) == CHOOSE m \in S : \A n \in S : m <= n
MaxOf(S) == CHOOSE m \in S : \A n \in S : m >= n

\* Bounding box <<minx, miny, maxx, maxy>> of a non-empty set of tiles
TileBounds(T) ==
    << MinOf({t[1] : t \in T}), MinOf({t[2] : t \in T}),
       MaxOf({t[1] : t \in T}) + Step, MaxOf({t[2] : t \in T}) + Step >>

\* A polygon geometry: its tiles and its bounds
PolygonOf(T) == [tiles |-> T, bnds |-> TileBounds(T)]

\* geometry.area, in m^2
AreaM2(T) == Cardinality(T) * Step * Step

\* Two tiles share an edge
Adjacent(a, b) ==
    \/ a[1] = b[1] /\ (a[2] = b[2] + Step \/ b[2] = a[2] + Step)
    \/ a[2] = b[2] /\ (a[1] = b[1] + Step \/ b[1] = a[1] + Step)

\* The edge-connected part of T that contains the tiles of C
RECURSIVE Grow(_, _)
Grow(C, T) ==
    LET more == {t \in T \ C : \E c \in C : Adjacent(c, t)}
    IN IF more = {} THEN C ELSE Grow(C \cup more, T)

\* GeoDataFrame.explode: one row per polygon part of a (multi)polygon
RECURSIVE Explode(_)
Explode(T) ==
    IF T = {} THEN <<>>
    ELSE LET first == CHOOSE t \in T : \A u \in T : t = u \/ Less(t, u)
             part == Grow({first}, T)
         IN <<PolygonOf(part)>> \o Explode(T \ part)

\* total_bounds of a GeoDataFrame with at least one row
TotalBounds(gdf) ==
    << MinOf({gdf[i].bnds[1] : i \in 1..Len(gdf)}),
       MinOf({gdf[i].bnds[2] : i \in 1..Len(gdf)}),
       MaxOf({gdf[i].bnds[3] : i \in 1..Len(gdf)}),
       MaxOf({gdf[i].bnds[4] : i \in 1..Len(gdf)}) >>

\* shapely box(minx, miny, maxx, maxy)
Box(minx, miny, maxx, maxy) == <<minx, miny, maxx, maxy>>

\* The closed boxes a and b have a point in common
BoxesMeet(a, b) ==
    a[1] <= b[3] /\ b[1] <= a[3] /\ a[2] <= b[4] /\ b[2] <= a[4]

TileBox(t) == Box(t[1], t[2], t[1] + Step, t[2] + Step)

\* Tile t lies inside box b
TileInBox(t, b) ==
    b[1] <= t[1] /\ t[1] + Step <= b[3] /\ b[2] <= t[2] /\ t[2] + Step <= b[4]

\* predicate "intersects" of a box and a geometry (touching counts)
Intersects(b, geom) ==
    IF geom.tiles = {} THEN BoxesMeet(b, geom.bnds)
    ELSE \E t \in geom.tiles : BoxesMeet(b, TileBox(t))

\* The polygonal part of box /\ geometry, as tiles (empty when they only touch)
Intersection(b, geom) == {t \in geom.tiles : TileInBox(t, b)}

----------------------------------------------------------------------------
(* make_square_grid, indicators.py:62-85 *)

\* The outer loop written `while x <= maxx`
OuterCond_Inclusive(xx, maxx) == xx <= maxx

\* `while x < maxx`
OuterCond(xx, maxx) == xx < maxx

\* `while y < maxy`
InnerCond(yy, maxy) == yy < maxy

\* `x = minx` / `y = miny`: the corner the tiling starts from
TilingStart(bnds) == <<bnds[1], bnds[2]>>

\* `x += cell_size_m` / `y += cell_size_m`
Advance(c, cs) == c + cs

\* `full_cell_area_km2 = (cell_size_m * cell_size_m) / 1e6`
FullCellAreaKm2(cs) == Rat(cs * cs, M2_PER_KM2)

\* `grid.geometry.area / 1e6`
AreaKm2(T) == Rat(AreaM2(T), M2_PER_KM2)

\* All <<i, j>> with i in 1..n, j in 1..m, ordered by i, then j
IndexPairs(n, m) ==
    [k \in 1..(n * m) |-> << ((k - 1) \div m) + 1, ((k - 1) % m) + 1 >>]

\* `gpd.overlay(grid, boundary_proj, how="intersection")`: one row per pair
\* (square, boundary row) that intersect, ordered by square, then by row.
\* A pair that only touches gives a row of zero area.
Overlay(sq, bnd) ==
    LET hit(p) == Intersects(sq[p[1]], bnd[p[2]])
        row(p) == [geometry |-> Intersection(sq[p[1]], bnd[p[2]])]
    IN MapSeq(SelectSeq(IndexPairs(Len(sq), Len(bnd)), hit), row)

\* The columns area_km2, cell_area_km2_full, coverage_ratio of lines 80-82
WithAreas(row, cs) ==
    [geometry |-> row.geometry,
     area_km2 |-> AreaKm2(row.geometry),
     cell_area_km2_full |-> FullCellAreaKm2(cs),
     coverage_ratio |-> RatDiv(AreaKm2(row.geometry), FullCellAreaKm2(cs))]

\* The filter written `area_km2 >= 0`: keeps the zero-area rows
KeepCell_NonNegative(row) == row.area_km2.num >= 0

\* The filter written to keep only the cells that are whole squares
KeepCell_OnlyFull(row) == row.area_km2 = row.cell_area_km2_full

\* `grid["area_km2"] > 0`
KeepCell(row) == row.area_km2.num > 0

\* `grid[...].reset_index(drop=True)`; `grid["cell_id"] = grid.index.astype(int)`
AssignCellIds(rows) ==
    [k \in 1..Len(rows) |->
        [geometry |-> rows[k].geometry,
         area_km2 |-> rows[k].area_km2,
         cell_area_km2_full |-> rows[k].cell_area_km2_full,
         coverage_ratio |-> rows[k].coverage_ratio,
         cell_id |-> k - 1]]

\* cell_id taken from the index before the zero-area rows are dropped
ClipAndNumber_IdsBeforeFilter(sq, bnd, cs) ==
    LET areas(r) == WithAreas(r, cs)
    IN SelectSeq(AssignCellIds(MapSeq(Overlay(sq, bnd), areas)), KeepCell)

\* Lines 78-85: overlay, area columns, the zero-area filter, cell ids
ClipAndNumber(sq, bnd, cs) ==
    LET areas(r) == WithAreas(r, cs)
    IN AssignCellIds(SelectSeq(MapSeq(Overlay(sq, bnd), areas), KeepCell))

----------------------------------------------------------------------------
(* aggregate_pois_to_grid, indicators.py:88-105 *)

\* Lattice tiles whose closed square holds coordinate c, per axis
TilesAt(c) == IF c % Step = 0 THEN {c - Step, c} ELSE {c - (c % Step)}

\* The point is in the closed union of tiles T (interior or border)
Covers(T, p) == (TilesAt(p[1]) \X TilesAt(p[2])) \cap T # {}

\* The join written with predicate="intersects": a border point matches
Within_Intersects(p, T) == Covers(T, p)

\* predicate "within": the point is in the interior of the union of tiles T
Within(p, T) == (TilesAt(p[1]) \X TilesAt(p[2])) \subseteq T

\* `gpd.sjoin(pois, grid[["cell_id","geometry"]], how="inner",
\* predicate="within")`: one row per (point, cell) pair that matches
SJoinWithin(pts, g) ==
    LET hit(p) == Within(pts[p[1]], g[p[2]].geometry)
        row(p) == [poi |-> p[1], cell_id |-> g[p[2]].cell_id]
    IN MapSeq(SelectSeq(IndexPairs(Len(pts), Len(g)), hit), row)

\* `joined.groupby("cell_id").size()`: a count for each cell_id that occurs
GroupSize(joined) ==
    [c \in {joined[i].cell_id : i \in 1..Len(joined)} |->
        Cardinality({i \in 1..Len(joined) : joined[i].cell_id = c})]

\* The count column of a grid row after the merge: null when no counts row
\* has its cell_id
MergedCount(r, counts) ==
    IF r.cell_id \in DOMAIN counts
    THEN [null |-> FALSE, val |-> counts[r.cell_id]]
    ELSE [null |-> TRUE, val |-> 0]

\* The merge written with how="inner": a cell with no counts row is dropped
Merge_Inner(g, counts) ==
    LET matched(r) == r.cell_id \in DOMAIN counts
        row(r) == [cell |-> r, count |-> MergedCount(r, counts)]
    IN MapSeq(SelectSeq(g, matched), row)

\* `grid_proj.merge(counts, on="cell_id", how="left")`: every grid row, in
\* order, with its (nullable) count
Merge(g, counts) ==
    LET row(r) == [cell |-> r, count |-> MergedCount(r, counts)]
    IN MapSeq(g, row)

\* `.fillna(0).astype(int)`
FillNa0(c) == IF c.null THEN 0 ELSE c.val

\* The density written with the clipped area as denominator
DensityPerKm2_Clipped(count, r) == RatDiv(Rat(count, 1), r.area_km2)

\* `grid_proj["count"] / grid_proj["cell_area_km2_full"]`
DensityPerKm2(count, r) == RatDiv(Rat(count, 1), r.cell_area_km2_full)

\* Lines 103-104: the row of the result for a merged row
PoiRow(m) ==
    LET n == FillNa0(m.count)
    IN WithColumns(m.cell, [count |-> n,
                            density_per_km2 |-> DensityPerKm2(n, m.cell)])

\* `if pois_gdf.empty or grid_gdf.empty`: the rows returned early, those of
\* `gpd.GeoDataFrame(columns=["cell_id", "count", "density_per_km2", "geometry"])`
EmptyPoiResult(pts, g) == <<>>

AggregatePoisToGrid(pts, g) ==
    IF pts = <<>> \/ g = <<>> THEN EmptyPoiResult(pts, g)
    ELSE MapSeq(Merge(g, GroupSize(SJoinWithin(pts, g))), PoiRow)

----------------------------------------------------------------------------
(* aggregate_buildings_to_grid, indicators.py:145-200 *)

\* A building footprint is an axis-parallel rectangle Box(minx, miny, maxx, maxy)
\* `buildings_proj.geometry.area / 1e6`
BuildingAreaKm2(b) == Rat((b[3] - b[1]) * (b[4] - b[2]), M2_PER_KM2)

\* `buildings_proj.geometry.centroid`
Centroid(b) == <<(b[1] + b[3]) \div 2, (b[2] + b[4]) \div 2>>

\* Lines 170-178: the area column, the centroids, and
\* `gpd.sjoin(buildings_centroids, grid[["cell_id","geometry"]], how="inner",
\* predicate="within")`
CentroidJoin(blds, g) ==
    LET hit(p) == Within(Centroid(blds[p[1]]), g[p[2]].geometry)
        row(p) == [building_area_km2 |-> BuildingAreaKm2(blds[p[1]]),
                   cell_id |-> g[p[2]].cell_id]
    IN MapSeq(SelectSeq(IndexPairs(Len(blds), Len(g)), hit), row)

\* `joined.groupby("cell_id").agg({"building_area_km2": "sum",
\* "geometry": "count"})`: a row for each cell_id that occurs
GroupAreaAndCount(joined) ==
    [c \in {joined[i].cell_id : i \in 1..Len(joined)} |->
        LET mine(r) == r.cell_id = c
            area(r) == r.building_area_km2
            rows == SelectSeq(joined, mine)
        IN [building_area_km2 |-> SumRat(MapSeq(rows, area)),
            building_count |-> Len(rows)]]

\* `grid_proj.merge(agg, on="cell_id", how="left")`: every grid row with its
\* aggregate, null when no aggregate row has its cell_id
MergeAgg(g, agg) ==
    LET row(r) == [cell |-> r,
                   null |-> r.cell_id \notin DOMAIN agg,
                   agg |-> IF r.cell_id \in DOMAIN agg THEN agg[r.cell_id]
                           ELSE [building_area_km2 |-> RatZero,
                                 building_count |-> 0]]
    IN MapSeq(g, row)

\* Lines 190-193: cell_area_km2_full when the grid has that column, else
\* area_km2
DenomArea(r) ==
    IF "cell_area_km2_full" \in DOMAIN r THEN r.cell_area_km2_full
    ELSE r.area_km2

\* A float is NaN
IsNaN(a) == a.den = 0 /\ a.num = 0

\* `.fillna(0)` on a float column: NaN becomes 0, everything else stays
FillNaFloat(a) == IF IsNaN(a) THEN RatZero ELSE a

\* Lines 195-196: `count / denom.replace(0, np.nan)`, then `.fillna(0)`
BuildingDensity(count, denom) ==
    IF denom.num = 0 /\ denom.den # 0 THEN RatZero
    ELSE FillNaFloat(RatDiv(Rat(count, 1), denom))

\* Line 198: `(building_area_km2 / denom_area * 100).fillna(0)`
FootprintCoverage(area, denom) ==
    LET q == RatDiv(area, denom)
    IN FillNaFloat(Rat(q.num * 100, q.den))

\* Lines 187-198: the row of the result for a merged row
BuildingRow(m) ==
    LET n == IF m.null THEN 0 ELSE m.agg.building_count
        a == IF m.null THEN RatZero ELSE m.agg.building_area_km2
    IN WithColumns(m.cell,
          [building_count |-> n,
           building_area_km2 |-> a,
           building_density |-> BuildingDensity(n, DenomArea(m.cell)),
           footprint_coverage |-> FootprintCoverage(a, DenomArea(m.cell))])

\* Lines 159-163: a copy of the grid with the four columns set to zero
ZeroBuildingRow(r) ==
    WithColumns(r, [building_count |-> 0,
                    building_area_km2 |-> RatZero,
                    building_density |-> RatZero,
                    footprint_coverage |-> RatZero])

\* The early return written as in aggregate_pois_to_grid: a new empty frame
EmptyBuildingResult_NewFrame(blds, g) == <<>>

\* `if buildings_gdf.empty or grid_gdf.empty`: lines 158-164
EmptyBuildingResult(blds, g) == MapSeq(g, ZeroBuildingRow)

AggregateBuildingsToGrid(blds, g) ==
    IF blds = <<>> \/ g = <<>> THEN EmptyBuildingResult(blds, g)
    ELSE MapSeq(MergeAgg(g, GroupAreaAndCount(CentroidJoin(blds, g))),
                BuildingRow)

----------------------------------------------------------------------------
(* Boundary geometries of validate_boundary and boundary_polygon_wgs84,   *)
(* boundaries.py:27-72                                                    *)

\* A geometry of the boundary table is [kind, valid, parts].  A part is a
\* polygon [tiles, holed]: its tiles, and the tiles among them that have a
\* hole, a square ring of side HoleSide inside the tile.  An invalid
\* Polygon is one self-intersecting ring: its parts are the lobes the ring
\* encloses (two for a figure-eight, none for a ring collapsed to a line).
HoleSide == 100

Part(T, H) == [tiles |-> T, holed |-> H]

\* A missing geometry (None)
NullGeometry == [kind |-> "null", valid |-> FALSE, parts |-> <<>>]

\* POLYGON EMPTY
EmptyPolygon == [kind |-> "Polygon", valid |-> TRUE, parts |-> <<>>]

LineGeometry == [kind |-> "LineString", valid |-> TRUE, parts |-> <<>>]
PointGeometry == [kind |-> "Point", valid |-> TRUE, parts |-> <<>>]

\* The valid polygonal geometry with the given parts
Polygonal(parts) ==
    [kind |-> IF Len(parts) >= 2 THEN "MultiPolygon" ELSE "Polygon",
     valid |-> TRUE, parts |-> parts]

\* A Polygon whose one ring self-intersects, with the lobes it encloses
InvalidPolygon(lobes) == [kind |-> "Polygon", valid |-> FALSE, parts |-> lobes]

\* `p.area` of a part, m^2
PartAreaM2(p) == AreaM2(p.tiles) - Cardinality(p.holed) * HoleSide * HoleSide

\* `gdf.is_valid`: False for a missing geometry
IsValid(g) == g.valid

\* The non-empty selections of the lobes of a ring with at most two lobes
SubSeqs(s) ==
    {<<s[i]>> : i \in 1..Len(s)} \cup (IF Len(s) = 2 THEN {s} ELSE {})

\* `geometry.buffer(0)`: the results it can give.  A missing geometry stays
\* missing; a line or a point has no area and gives POLYGON EMPTY; a valid
\* polygon is returned as it is; a self-intersecting ring is rebuilt from
\* its lobes, of which GEOS keeps all or some, and a collapsed ring gives
\* POLYGON EMPTY.
Buffer0(g) ==
    CASE g.kind = "null" -> {NullGeometry}
      [] g.kind \in {"LineString", "Point"} -> {EmptyPolygon}
      [] g.kind \in {"Polygon", "MultiPolygon"} /\ g.valid -> {g}
      [] OTHER -> IF g.parts = <<>> THEN {EmptyPolygon}
                  ELSE {Polygonal(l) : l \in SubSeqs(g.parts)}

\* Line 52, buffer(0) on every row: the tables it can give
RECURSIVE BufferAll(_)
BufferAll(rows) ==
    IF rows = <<>> THEN {<<>>}
    ELSE {<<WithColumns(Head(rows), [geometry |-> h])>> \o t :
            h \in Buffer0(Head(rows).geometry), t \in BufferAll(Tail(rows))}

\* hole_count that looks at Polygon geometries only
HoleCount_PolygonOnly(g) ==
    IF g.kind = "Polygon" /\ g.parts # <<>> THEN Cardinality(g.parts[1].holed)
    ELSE 0

\* hole_count, lines 57-62
HoleCount(g) ==
    LET holes(p) == Cardinality(p.holed)
    IN CASE g.kind = "Polygon" -> SumSeq(MapSeq(g.parts, holes))
         [] g.kind = "MultiPolygon" -> SumSeq(MapSeq(g.parts, holes))
         [] OTHER -> 0

\* A report entry that is None or a bool
NoneValue == [null |-> TRUE, val |-> FALSE]
BoolOf(b) == [null |-> FALSE, val |-> b]

\* Lines 66-71
Report(gdf) ==
    LET holes(r) == r.holes
    IN [valid_before |->
            IF Len(gdf) > 0
            THEN BoolOf(\A i \in 1..Len(gdf) : gdf[i].is_valid_before)
            ELSE NoneValue,
        valid_after |->
            IF Len(gdf) > 0
            THEN BoolOf(\A i \in 1..Len(gdf) : gdf[i].is_valid_after)
            ELSE NoneValue,
        total_holes |-> IF Len(gdf) > 0 THEN SumSeq(MapSeq(gdf, holes)) ELSE 0,
        features |-> Len(gdf)]

\* Line 49: the is_valid_before column
WithValidBefore(geoms) ==
    LET row(g) == [geometry |-> g, is_valid_before |-> IsValid(g)]
    IN MapSeq(geoms, row)

\* Line 53, `gdf.geometry.notnull()`: false for a missing geometry only; an
\* empty geometry is not a missing one
NotNull(r) == r.geometry.kind # "null"

\* Lines 53-64 on a buffered table: the filter and the two new columns
Cleaned(buffered) ==
    LET row(r) == WithColumns(r, [is_valid_after |-> IsValid(r.geometry),
                                  holes |-> HoleCount(r.geometry)])
    IN MapSeq(SelectSeq(buffered, NotNull), row)

\* Line 72: `gdf.drop(columns=["is_valid_before", "is_valid_after"])`
DropValidity(gdf) ==
    LET row(r) == [geometry |-> r.geometry, holes |-> r.holes]
    IN MapSeq(gdf, row)

\* The polygon parts of all geometries of a table
PartsOf(geoms) ==
    UNION {{geoms[i].parts[j] : j \in 1..Len(geoms[i].parts)} :
             i \in {k \in 1..Len(geoms) :
                       geoms[k].kind \in {"Polygon", "MultiPolygon"}}}

\* `unary_union(b.geometry.values)`, its polygons: the union covers the
\* tiles of all parts, a hole stays where every part that covers its tile
\* has it, and parts that share an edge merge
UnionPolygons(geoms) ==
    LET parts == PartsOf(geoms)
        tiles == UNION {p.tiles : p \in parts}
        holed == {t \in tiles : \A p \in parts : t \in p.tiles => t \in p.holed}
        part(c) == Part(c.tiles, holed \cap c.tiles)
    IN MapSeq(Explode(tiles), part)

\* `geom.geom_type` of the union: the types it can have.  Missing
\* geometries are skipped.  Lines and points lie apart from the polygons.
\* The union of nothing is GEOMETRYCOLLECTION EMPTY; the union of empty
\* polygons alone is that or POLYGON EMPTY, depending on the GEOS build.
UnionTypes(geoms) ==
    LET kinds == {geoms[i].kind : i \in 1..Len(geoms)} \ {"null"}
        others == kinds \ {"Polygon", "MultiPolygon"}
        lines == {i \in 1..Len(geoms) : geoms[i].kind = "LineString"}
        points == {i \in 1..Len(geoms) : geoms[i].kind = "Point"}
        n == Len(UnionPolygons(geoms))
    IN CASE n > 0 /\ others = {} ->
                {IF n = 1 THEN "Polygon" ELSE "MultiPolygon"}
         [] n > 0 /\ others # {} -> {"GeometryCollection"}
         [] n = 0 /\ others = {"LineString"} ->
                {IF Cardinality(lines) = 1 THEN "LineString" ELSE "MultiLineString"}
         [] n = 0 /\ others = {"Point"} ->
                {IF Cardinality(points) = 1 THEN "Point" ELSE "MultiPoint"}
         [] n = 0 /\ others = {"LineString", "Point"} -> {"GeometryCollection"}
         [] OTHER -> IF kinds = {} THEN {"GeometryCollection"}
                     ELSE {"GeometryCollection", "Polygon"}

\* `max(parts, key=lambda p: p.area)`: a part of the largest area; which
\* one of several equally large parts depends on the order GEOS lists them in
LargestParts(parts) ==
    {parts[i] : i \in {k \in 1..Len(parts) :
                          \A j \in 1..Len(parts) :
                              PartAreaM2(parts[k]) >= PartAreaM2(parts[j])}}

\* The last line written as a default: an empty polygon is returned
NotPolygonal_Default(t) ==
    [geom_type |-> t, raised |-> FALSE, polygon |-> <<Part({}, {})>>]

\* Line 38: `raise ValueError(...)`, nothing is returned
NotPolygonal(t) == [geom_type |-> t, raised |-> TRUE, polygon |-> <<>>]

\* boundary_polygon_wgs84, lines 31-38: the returns it can make, as
\* [geom_type, raised, polygon]
BoundaryPolygonWgs84(geoms) ==
    LET parts == UnionPolygons(geoms)
        result(t) ==
            CASE t = "MultiPolygon" ->
                    {[geom_type |-> t, raised |-> FALSE, polygon |-> <<p>>] :
                        p \in LargestParts(parts)}
              [] t = "Polygon" ->
                    {[geom_type |-> t, raised |-> FALSE,
                      polygon |-> IF parts = <<>> THEN <<Part({}, {})>>
                                  ELSE <<parts[1]>>]}
              [] OTHER -> {NotPolygonal(t)}
    IN UNION {result(t) : t \in UnionTypes(geoms)}

----------------------------------------------------------------------------
(* Inputs *)

CoordsX == {k * Step : k \in 0..MaxCoord}
CoordsY == {0, Step, 2 * Step}

\* A boundary as fetch_boundary returns it: the parts of a (multi)polygon,
\* one row each
PolygonBoundaries == {Explode(T) : T \in (SUBSET AllTiles) \ {{}}}

\* A boundary of zero width or zero height (a point or an axis-parallel
\* segment): no area, bounds only
DegenerateBoundaries ==
    {<<[tiles |-> {}, bnds |-> Box(b[1], b[2], b[3], b[4])]>> :
        b \in {c \in CoordsX \X CoordsY \X CoordsX \X CoordsY :
                  /\ c[1] <= c[3] /\ c[2] <= c[4]
                  /\ (c[1] = c[3] \/ c[2] = c[4])}}

\* cell_size_m: zero or a whole number of lattice steps
CellSizes == {k * Step : k \in 0..MaxCoord}

\* Point coordinates: lattice lines and the lines halfway between them
PoiCoordsX == {k * (Step \div 2) : k \in 0..(2 * MaxCoord)}
PoiCoordsY == {k * (Step \div 2) : k \in 0..4}
PoiPoints == PoiCoordsX \X PoiCoordsY

\* The 1000 m x 1000 m square at the origin, and two points in each of its
\* four 500 m quadrants
SquareKm == {0, Step} \X {0, Step}
QuadrantCentres ==
    << <<Step \div 2, Step \div 2>>, <<Step \div 2, Step + (Step \div 2)>>,
       <<Step + (Step \div 2), Step \div 2>>,
       <<Step + (Step \div 2), Step + (Step \div 2)>> >>
TwoPerQuadrant == QuadrantCentres \o QuadrantCentres

\* Point feature sets: none, one point, two points (row order does not
\* change a group size, so pairs are taken in one order), and the scenario
PoiInputs ==
    {<<>>} \cup {<<p>> : p \in PoiPoints}
    \cup {<<p[1], p[2]>> : p \in {q \in PoiPoints \X PoiPoints :
                                     q[1] = q[2] \/ Less(q[1], q[2])}}
    \cup {TwoPerQuadrant}

\* Building footprints: rectangles with corners on the point raster, one or
\* two raster steps wide and high
BuildingRects ==
    {Box(c[1], c[2], c[1] + w[1], c[2] + w[2]) :
        c \in PoiPoints, w \in {Step \div 2, Step} \X {Step \div 2, Step}}

\* A 100 m x 100 m footprint (0.01 km2) with its centroid (470, 250) in the
\* tile at the origin and its east side 20 m inside the next tile
SpanningBuilding == Box(Step - 80, 200, Step + 20, 300)

\* The quarter-tile footprints of the square at the origin
QuarterRects ==
    {b \in BuildingRects :
        /\ b[3] - b[1] = Step \div 2 /\ b[4] - b[2] = Step \div 2
        /\ b[3] <= Step + (Step \div 2) /\ b[4] <= Step + (Step \div 2)}

\* Building sets: none, one footprint, two quarter-tile footprints (in one
\* order: a sum and a count do not depend on the row order), the scenario
BuildingInputs ==
    {<<>>} \cup {<<b>> : b \in BuildingRects \cup {SpanningBuilding}}
    \cup {<<p[1], p[2]>> : p \in {q \in QuarterRects \X QuarterRects :
                                     q[1] = q[2] \/ Less(q[1], q[2])}}

\* A grid whose rows have no cell_area_km2_full column (one written by an
\* earlier version of make_square_grid, or by another caller)
WithoutFullArea(g) ==
    LET row(r) == [f \in DOMAIN r \ {"cell_area_km2_full"} |-> r[f]]
    IN MapSeq(g, row)

\* A grid whose rows all have cell_area_km2_full = 0.0
WithZeroFullArea(g) ==
    LET row(r) == WithColumns(r, [cell_area_km2_full |-> RatZero])
    IN MapSeq(g, row)

\* The grids a caller passes as grid_gdf, made from the grid just built
GridArguments(g) == {g, WithoutFullArea(g), WithZeroFullArea(g)}

----------------------------------------------------------------------------
(* The run: make_square_grid step by step, then aggregate_pois_to_grid *)

\* The parts of the state a run does not use
NoBuildings == buildings = <<>> /\ grid_gdf = <<>> /\ building_grid = <<>>
NoClassifier == tags = <<>> /\ preferred = <<>> /\ scan = 0 /\ category = ""
NoValidator ==
    /\ vb_in = <<>> /\ vb_out = <<>> /\ vb_report = <<>>
    /\ bp_in = <<>> /\ bp_type = "" /\ bp_out = <<>>

Init ==
    /\ boundary \in PolygonBoundaries \cup DegenerateBoundaries
    /\ cell_size_m \in CellSizes
    /\ x = 0
    /\ y = 0
    /\ squares = <<>>
    /\ grid = <<>>
    /\ pois = <<>>
    /\ poi_grid = <<>>
    /\ pc = "start"
    /\ NoBuildings
    /\ NoClassifier
    /\ NoValidator

\* Lines 64-70: bounds, the empty list of squares, `x = minx`
GridStart ==
    /\ pc = "start"
    /\ x' = TilingStart(TotalBounds(boundary))[1]
    /\ squares' = <<>>
    /\ pc' = "outer"
    /\ UNCHANGED <<boundary, cell_size_m, y, grid, pois, poi_grid>>
    /\ UNCHANGED <<buildingVars, classifierVars, validatorVars>>

\* Line 71-72: the outer loop test, true: `y = miny`
OuterEnter ==
    /\ pc = "outer"
    /\ OuterCond(x, TotalBounds(boundary)[3])
    /\ y' = TilingStart(TotalBounds(boundary))[2]
    /\ pc' = "inner"
    /\ UNCHANGED <<boundary, cell_size_m, x, squares, grid, pois, poi_grid>>
    /\ UNCHANGED <<buildingVars, classifierVars, validatorVars>>

\* Lines 73-75: the inner loop test, true: append the square, advance y
InnerAppend ==
    /\ pc = "inner"
    /\ InnerCond(y, TotalBounds(boundary)[4])
    /\ Len(squares) < MaxSquares
    /\ squares' = Append(squares, Box(x, y, x + cell_size_m, y + cell_size_m))
    /\ y' = Advance(y, cell_size_m)
    /\ UNCHANGED <<boundary, cell_size_m, x, grid, pois, poi_grid, pc>>
    /\ UNCHANGED <<buildingVars, classifierVars, validatorVars>>

\* Line 74 when the list cannot grow any more: MemoryError
InnerOutOfMemory ==
    /\ pc = "inner"
    /\ InnerCond(y, TotalBounds(boundary)[4])
    /\ Len(squares) >= MaxSquares
    /\ pc' = "MemoryError"
    /\ UNCHANGED <<boundary, cell_size_m, x, y, squares, grid, pois, poi_grid>>
    /\ UNCHANGED <<buildingVars, classifierVars, validatorVars>>

\* Lines 73, 76: the inner loop test, false: advance x
InnerExit ==
    /\ pc = "inner"
    /\ ~InnerCond(y, TotalBounds(boundary)[4])
    /\ x' = Advance(x, cell_size_m)
    /\ pc' = "outer"
    /\ UNCHANGED <<boundary, cell_size_m, y, squares, grid, pois, poi_grid>>
    /\ UNCHANGED <<buildingVars, classifierVars, validatorVars>>

\* Lines 71, 78-85: the outer loop test, false: clip, filter, number, return
GridFinish ==
    /\ pc = "outer"
    /\ ~OuterCond(x, TotalBounds(boundary)[3])
    /\ grid' = ClipAndNumber(squares, boundary, cell_size_m)
    /\ pc' = "grid"
    /\ UNCHANGED <<boundary, cell_size_m, x, y, squares, pois, poi_grid>>
    /\ UNCHANGED <<buildingVars, classifierVars, validatorVars>>

\* aggregate_pois_to_grid(pois, grid) on the grid just built
AggregatePois ==
    /\ pc = "grid"
    /\ \E p \in PoiInputs :
          /\ pois' = p
          /\ poi_grid' = AggregatePoisToGrid(p, grid)
    /\ pc' = "poi_grid"
    /\ UNCHANGED <<boundary, cell_size_m, x, y, squares, grid>>
    /\ UNCHANGED <<buildingVars, classifierVars, validatorVars>>

Next ==
    \/ GridStart
    \/ OuterEnter
    \/ InnerAppend
    \/ InnerOutOfMemory
    \/ InnerExit
    \/ GridFinish
    \/ AggregatePois

Spec == Init /\ [][Next]_vars

\* The interpreter runs the next statement whenever there is one
FairSpec == Spec /\ WF_vars(Next)

----------------------------------------------------------------------------
(* The run: make_square_grid, then aggregate_buildings_to_grid *)

\* aggregate_buildings_to_grid(buildings, grid_gdf) on a grid argument made
\* from the grid just built
AggregateBuildings ==
    /\ pc = "grid"
    /\ \E b \in BuildingInputs, g \in GridArguments(grid) :
          /\ buildings' = b
          /\ grid_gdf' = g
          /\ building_grid' = AggregateBuildingsToGrid(b, g)
    /\ pc' = "building_grid"
    /\ UNCHANGED <<boundary, cell_size_m, x, y, squares, grid, pois, poi_grid>>
    /\ UNCHANGED <<classifierVars, validatorVars>>

NextBuildings ==
    \/ GridStart
    \/ OuterEnter
    \/ InnerAppend
    \/ InnerOutOfMemory
    \/ InnerExit
    \/ GridFinish
    \/ AggregateBuildings

SpecBuildings == Init /\ [][NextBuildings]_vars

----------------------------------------------------------------------------
(* The run: make_square_grid, aggregate_pois_to_grid, and then            *)
(* aggregate_buildings_to_grid on the table of the point aggregation, as  *)
(* pipeline.run chains them                                               *)

\* Point sets of the chained run: none, one point in a quadrant of the
\* square at the origin, two points
RunPois ==
    {<<>>, <<QuadrantCentres[1], QuadrantCentres[1]>>}
    \cup {<<QuadrantCentres[k]>> : k \in 1..Len(QuadrantCentres)}

\* Building sets of the chained run: none, one quarter-tile footprint, the
\* spanning footprint
RunBuildings ==
    {<<>>, <<SpanningBuilding>>} \cup {<<b>> : b \in QuarterRects}

\* pipeline.py:154, `grid = aggregate_pois_to_grid(pois, grid)`, on the grid
\* just built or on that grid with cell_area_km2_full = 0.0
RunAggregatePois ==
    /\ pc = "grid"
    /\ \E p \in RunPois, g \in {grid, WithZeroFullArea(grid)} :
          /\ pois' = p
          /\ grid_gdf' = g
          /\ poi_grid' = AggregatePoisToGrid(p, g)
    /\ pc' = "poi_grid"
    /\ UNCHANGED <<boundary, cell_size_m, x, y, squares, grid>>
    /\ UNCHANGED <<buildings, building_grid, classifierVars, validatorVars>>

\* pipeline.py:244, `building_grid = aggregate_buildings_to_grid(buildings_clean, grid)`
RunAggregateBuildings ==
    /\ pc = "poi_grid"
    /\ \E b \in RunBuildings :
          /\ buildings' = b
          /\ building_grid' = AggregateBuildingsToGrid(b, poi_grid)
    /\ pc' = "final"
    /\ UNCHANGED <<boundary, cell_size_m, x, y, squares, grid, pois, poi_grid>>
    /\ UNCHANGED <<grid_gdf, classifierVars, validatorVars>>

NextRun ==
    \/ GridStart
    \/ OuterEnter
    \/ InnerAppend
    \/ InnerOutOfMemory
    \/ InnerExit
    \/ GridFinish
    \/ RunAggregatePois
    \/ RunAggregateBuildings

SpecRun == Init /\ [][NextRun]_vars

----------------------------------------------------------------------------
(* pick of categorize_pois (indicators.py:33-48) and of classify_landuse  *)
(* (landuse.py:43-58), on one row                                         *)

\* `preferred` of categorize_pois and of classify_landuse
POI_PREFERRED == <<"amenity", "leisure">>
LANDUSE_PREFERRED == <<"landuse", "natural", "leisure", "landcover">>

TagKeys == {"amenity", "leisure", "landuse", "natural", "landcover"}

\* Cell values of a row: None, NaN, the booleans, a string
None == [kind |-> "None"]
NaN == [kind |-> "nan"]
BoolValue(b) == [kind |-> "bool", flag |-> b]
StrValue(t) == [kind |-> "str", text |-> t]
TagValues == {None, NaN, BoolValue(TRUE), BoolValue(FALSE), StrValue("park")}

\* Rows: each tag column is missing from the frame or holds a value
TagRows == UNION {[K -> TagValues] : K \in SUBSET TagKeys}

\* `row.get(k)`: None for a column the row does not have
Get(row, k) == IF k \in DOMAIN row THEN row[k] ELSE None

\* `pd.notna(v)`
NotNa(v) == v.kind \notin {"None", "nan"}

\* `str(v)` inside the f-string
Str(v) ==
    CASE v.kind = "str" -> v.text
      [] v.kind = "bool" -> IF v.flag THEN "True" ELSE "False"
      [] v.kind = "None" -> "None"
      [] v.kind = "nan" -> "nan"

\* The label written for every value: `f"{k}:{v}"`
Label_KeyValueOnly(k, v) == k \o ":" \o Str(v)

\* `f"{k}:{v}" if v is not True else k`
Label(k, v) == IF v = BoolValue(TRUE) THEN k ELSE k \o ":" \o Str(v)

InitClassify ==
    /\ boundary = <<>>
    /\ cell_size_m = 0
    /\ x = 0
    /\ y = 0
    /\ squares = <<>>
    /\ grid = <<>>
    /\ pois = <<>>
    /\ poi_grid = <<>>
    /\ NoBuildings
    /\ NoValidator
    /\ tags \in TagRows
    /\ preferred \in {POI_PREFERRED, LANDUSE_PREFERRED}
    /\ scan = 1
    /\ category = ""
    /\ pc = "pick"

\* `for k in preferred`, `if pd.notna(v)` false: next key
PickSkip ==
    /\ pc = "pick"
    /\ scan <= Len(preferred)
    /\ ~NotNa(Get(tags, preferred[scan]))
    /\ scan' = scan + 1
    /\ UNCHANGED <<tags, preferred, category, pc>>
    /\ UNCHANGED <<boundary, cell_size_m, x, y, squares, grid, pois, poi_grid>>
    /\ UNCHANGED <<buildingVars, validatorVars>>

\* `if pd.notna(v): return ...`
PickReturn ==
    /\ pc = "pick"
    /\ scan <= Len(preferred)
    /\ NotNa(Get(tags, preferred[scan]))
    /\ category' = Label(preferred[scan], Get(tags, preferred[scan]))
    /\ pc' = "picked"
    /\ UNCHANGED <<tags, preferred, scan>>
    /\ UNCHANGED <<boundary, cell_size_m, x, y, squares, grid, pois, poi_grid>>
    /\ UNCHANGED <<buildingVars, validatorVars>>

\* The loop is exhausted: `return "unknown"`
PickUnknown ==
    /\ pc = "pick"
    /\ scan > Len(preferred)
    /\ category' = "unknown"
    /\ pc' = "picked"
    /\ UNCHANGED <<tags, preferred, scan>>
    /\ UNCHANGED <<boundary, cell_size_m, x, y, squares, grid, pois, poi_grid>>
    /\ UNCHANGED <<buildingVars, validatorVars>>

NextClassify == PickSkip \/ PickReturn \/ PickUnknown

SpecClassify == InitClassify /\ [][NextClassify]_vars

----------------------------------------------------------------------------
(* The run: validate_boundary, then boundary_polygon_wgs84               *)

\* Tiles of the boundary geometries: the tile at the origin, the tile that
\* touches it at its upper right corner, the tile east of it, and the
\* two-tile column at the origin
TileA == {<<0, 0>>}
TileB == {<<Step, Step>>}
TileD == {<<Step, 0>>}
ColumnA == {<<0, 0>>, <<0, Step>>}

\* Geometries of a boundary table: valid polygons without and with a hole,
\* a valid MultiPolygon, a figure-eight ring around TileA and TileB, a ring
\* collapsed to a line, a line, a point, a missing geometry
BoundaryGeometries ==
    {Polygonal(<<Part(TileA, {})>>), Polygonal(<<Part(TileA, TileA)>>),
     Polygonal(<<Part(TileB, {})>>), Polygonal(<<Part(TileD, {})>>),
     Polygonal(<<Part(ColumnA, {})>>), Polygonal(<<Part(ColumnA, TileA)>>),
     Polygonal(<<Part(TileA, TileA), Part(TileB, TileB)>>),
     InvalidPolygon(<<Part(TileA, {}), Part(TileB, {})>>),
     InvalidPolygon(<<>>),
     LineGeometry, PointGeometry, NullGeometry}

\* Boundary tables: no row, one row, two rows
BoundaryTables ==
    {<<>>} \cup {<<g>> : g \in BoundaryGeometries}
    \cup {<<g, h>> : g \in BoundaryGeometries, h \in BoundaryGeometries}

InitBoundary ==
    /\ boundary = <<>>
    /\ cell_size_m = 0
    /\ x = 0
    /\ y = 0
    /\ squares = <<>>
    /\ grid = <<>>
    /\ pois = <<>>
    /\ poi_grid = <<>>
    /\ NoBuildings
    /\ NoClassifier
    /\ vb_in \in BoundaryTables
    /\ vb_out = <<>>
    /\ vb_report = <<>>
    /\ bp_in = <<>>
    /\ bp_type = ""
    /\ bp_out = <<>>
    /\ pc = "boundary"

\* pipeline.py:56, `boundary, val_report = validate_boundary(boundary)`
ValidateBoundary ==
    /\ pc = "boundary"
    /\ \E t \in BufferAll(WithValidBefore(vb_in)) :
          /\ vb_out' = DropValidity(Cleaned(t))
          /\ vb_report' = <<Report(Cleaned(t))>>
    /\ pc' = "validated"
    /\ UNCHANGED <<vb_in, bp_in, bp_type, bp_out>>
    /\ UNCHANGED <<boundary, cell_size_m, x, y, squares, grid, pois, poi_grid>>
    /\ UNCHANGED <<buildingVars, classifierVars>>

GeometryOfRow(r) == r.geometry

\* boundary_polygon_wgs84(b) has returned polygon o.polygon or has raised
PolygonResult(b, o) ==
    /\ bp_in' = b
    /\ bp_type' = o.geom_type
    /\ bp_out' = o.polygon
    /\ pc' = IF o.raised THEN "ValueError" ELSE "polygon"
    /\ UNCHANGED <<vb_in, vb_out, vb_report>>
    /\ UNCHANGED <<boundary, cell_size_m, x, y, squares, grid, pois, poi_grid>>
    /\ UNCHANGED <<buildingVars, classifierVars>>

\* pipeline.py:71, `polygon = boundary_polygon_wgs84(boundary)` on the
\* cleaned boundary
BoundaryPolygon ==
    /\ pc = "validated"
    /\ \E o \in BoundaryPolygonWgs84(MapSeq(vb_out, GeometryOfRow)) :
          PolygonResult(MapSeq(vb_out, GeometryOfRow), o)

\* boundary_polygon_wgs84 called on a table that was not cleaned and has
\* no self-intersecting ring (the union of those is not defined)
BoundaryPolygonUncleaned ==
    /\ pc = "boundary"
    /\ \A i \in 1..Len(vb_in) : vb_in[i].kind = "null" \/ vb_in[i].valid
    /\ \E o \in BoundaryPolygonWgs84(vb_in) : PolygonResult(vb_in, o)

NextBoundary ==
    \/ ValidateBoundary
    \/ BoundaryPolygon
    \/ BoundaryPolygonUncleaned

SpecBoundary == InitBoundary /\ [][NextBoundary]_vars

----------------------------------------------------------------------------
(* Properties of make_square_grid *)

\* make_square_grid has just returned its grid
Returned == pc = "grid"

Bnds == TotalBounds(boundary)

AreaOfCell(c) == c.area_km2

\* The origins the tiling has to have: (minx + i*cell, miny + j*cell), below
\* the max bound on each axis
TilingOrigins ==
    {o \in {<<Bnds[1] + i * cell_size_m, Bnds[2] + j * cell_size_m>> :
               i \in 0..MaxCoord, j \in 0..MaxCoord} :
        o[1] < Bnds[3] /\ o[2] < Bnds[4]}

\* The 1000 m x 1000 m square at the origin, tiled with 500 m cells
SquareScenario ==
    /\ boundary = <<PolygonOf(SquareKm)>>
    /\ cell_size_m = 500

\* The L-shaped boundary: three of the four quadrants of that square
LShape == SquareKm \ {<<Step, Step>>}

LScenario ==
    /\ boundary = <<PolygonOf(LShape)>>
    /\ cell_size_m = 500

\* C1: the squares are exactly the boxes of side cell_size_m at the origins
\* (minx + i*cell, miny + j*cell) below the max bounds, each once; the
\* 1000 x 1000 square with 500 m cells gives 4 cells of 0.25 km2, all full.
C1_Tiling ==
    Returned =>
        /\ \A k \in 1..Len(squares) :
              squares[k] = Box(squares[k][1], squares[k][2],
                               squares[k][1] + cell_size_m,
                               squares[k][2] + cell_size_m)
        /\ {<<squares[k][1], squares[k][2]>> : k \in 1..Len(squares)}
              = TilingOrigins
        /\ Len(squares) = Cardinality(TilingOrigins)
        /\ SquareScenario =>
              /\ Len(grid) = 4
              /\ \A k \in 1..Len(grid) :
                    /\ grid[k].area_km2 = Rat(1, 4)
                    /\ grid[k].cell_area_km2_full = Rat(1, 4)

C1_Witness == pc = "grid" /\ SquareScenario /\ Len(grid) = 4

\* C2: every cell of the returned grid has 0 < area_km2 <= cell_area_km2_full
\* (a square that only touches the boundary is not in the grid); the L-shaped
\* boundary gives exactly 3 cells, none of them on the missing quadrant.
C2_PositiveArea ==
    Returned =>
        /\ \A k \in 1..Len(grid) :
              /\ grid[k].area_km2.num > 0
              /\ grid[k].geometry # {}
              /\ RatLeq(grid[k].area_km2, grid[k].cell_area_km2_full)
        /\ LScenario =>
              /\ Len(grid) = 3
              /\ \A k \in 1..Len(grid) :
                    /\ <<Step, Step>> \notin grid[k].geometry
                    /\ grid[k].area_km2 = Rat(1, 4)

\* A square of the tiling that only touches the boundary was dropped
C2_Witness ==
    /\ pc = "grid"
    /\ cell_size_m > 0
    /\ \E k \in 1..Len(squares) :
          /\ \E j \in 1..Len(boundary) : Intersects(squares[k], boundary[j])
          /\ \A j \in 1..Len(boundary) :
                Intersection(squares[k], boundary[j]) = {}
    /\ Len(grid) > 0

\* C3: the cells do not overlap, and their areas add up to the area of the
\* boundary.
C3_Partition ==
    Returned =>
        /\ \A k \in 1..Len(grid) : \A l \in 1..Len(grid) :
              k # l => grid[k].geometry \cap grid[l].geometry = {}
        /\ SumRat(MapSeq(grid, AreaOfCell))
              = Rat(SumSeq([j \in 1..Len(boundary) |->
                               AreaM2(boundary[j].tiles)]), M2_PER_KM2)

\* One simple polygon, cut into several cells, one of them clipped
C3_Witness ==
    /\ pc = "grid"
    /\ Len(boundary) = 1
    /\ Len(grid) >= 2
    /\ \E k \in 1..Len(grid) :
          grid[k].area_km2 # grid[k].cell_area_km2_full

\* The geometries of the overlay rows that have an area, in overlay order
KeptGeometries ==
    LET geom(r) == r.geometry
        nonEmpty(T) == T # {}
    IN SelectSeq(MapSeq(Overlay(squares, boundary), geom), nonEmpty)

\* C4: the cell ids are 0 .. n-1, each the rank of its cell among the cells
\* kept, in tiling order.
C4_CellIds ==
    Returned =>
        /\ Len(grid) = Len(KeptGeometries)
        /\ \A k \in 1..Len(grid) :
              /\ grid[k].cell_id = k - 1
              /\ grid[k].geometry = KeptGeometries[k]
        /\ {grid[k].cell_id : k \in 1..Len(grid)} = 0..(Len(grid) - 1)

\* A zero-area row was dropped ahead of a cell that was kept
C4_Witness ==
    /\ pc = "grid"
    /\ LET ov == Overlay(squares, boundary)
       IN \E k \in 1..Len(ov) : \E l \in 1..Len(ov) :
             k < l /\ ov[k].geometry = {} /\ ov[l].geometry # {}

\* The boundary has zero width or zero height
Degenerate == Bnds[1] = Bnds[3] \/ Bnds[2] = Bnds[4]

\* C5: on a degenerate boundary make_square_grid returns, and returns the
\* empty grid.
C5_DegenerateGivesEmptyGrid ==
    (pc = "start" /\ Degenerate) ~> (pc = "grid" /\ grid = <<>>)

\* C6: make_square_grid returns for every cell size, also for cell size 0
\* over a boundary of positive width and height.
C6_Terminates ==
    (pc = "start" /\ ~Degenerate) ~> Returned

----------------------------------------------------------------------------
(* Properties of aggregate_pois_to_grid *)

\* aggregate_pois_to_grid has returned
Aggregated == pc = "poi_grid"

CountOfRow(r) == r.count

\* The cells the join matched point i with
CellsOfPoint(i) ==
    LET joined == SJoinWithin(pois, grid)
    IN {k \in 1..Len(joined) : joined[k].poi = i}

\* C7: every point is matched with at most one cell, and the counts add up
\* to no more than the number of points.
C7_AtMostOneCell ==
    Aggregated =>
        /\ \A i \in 1..Len(pois) : Cardinality(CellsOfPoint(i)) <= 1
        /\ SumSeq(MapSeq(poi_grid, CountOfRow)) <= Len(pois)

\* A point lies on the border shared by two cells
C7_Witness ==
    /\ Aggregated
    /\ poi_grid # <<>>
    /\ \E i \in 1..Len(pois) : \E k \in 1..Len(grid) : \E l \in 1..Len(grid) :
          /\ k # l
          /\ Covers(grid[k].geometry, pois[i])
          /\ Covers(grid[l].geometry, pois[i])

\* C8: for non-empty inputs the result has one row per grid cell, in the
\* order of the grid, and its count is the number of points within the
\* cell's clipped geometry, 0 when there is none.
C8_CountPerCell ==
    (Aggregated /\ pois # <<>> /\ grid # <<>>) =>
        /\ Len(poi_grid) = Len(grid)
        /\ \A k \in 1..Len(grid) :
              /\ poi_grid[k].cell_id = grid[k].cell_id
              /\ poi_grid[k].geometry = grid[k].geometry
              /\ poi_grid[k].count \in Nat
              /\ poi_grid[k].count =
                    Cardinality({i \in 1..Len(pois) :
                                    Within(pois[i], grid[k].geometry)})

\* One cell holds two points and another cell holds none
C8_Witness ==
    /\ Aggregated
    /\ \E k \in 1..Len(poi_grid) : \E l \in 1..Len(poi_grid) :
          poi_grid[k].count = 2 /\ poi_grid[l].count = 0

\* C9: the density of every cell is its count over the full square area in
\* km2; two points in each 0.25 km2 quadrant give count 2 and density 8.
C9_DensityOverFullArea ==
    Aggregated =>
        /\ \A k \in 1..Len(poi_grid) :
              poi_grid[k].density_per_km2 =
                 Rat(poi_grid[k].count * M2_PER_KM2, cell_size_m * cell_size_m)
        /\ (SquareScenario /\ pois = TwoPerQuadrant) =>
              /\ Len(poi_grid) = 4
              /\ \A k \in 1..Len(poi_grid) :
                    /\ poi_grid[k].count = 2
                    /\ poi_grid[k].density_per_km2 = Rat(8, 1)

\* A clipped cell (area_km2 below the full area) with a point in it
C9_Witness ==
    /\ Aggregated
    /\ \E k \in 1..Len(poi_grid) :
          /\ poi_grid[k].count > 0
          /\ poi_grid[k].area_km2 # poi_grid[k].cell_area_km2_full

\* The scenario of C9 is run to its end
C9_ScenarioReached ==
    Aggregated /\ SquareScenario /\ pois = TwoPerQuadrant /\ Len(poi_grid) = 4

\* C10: with no points, or no cells, the result is the grid itself, cell for
\* cell, with count 0 and density 0.
C10_EmptyInputKeepsGrid ==
    (Aggregated /\ (pois = <<>> \/ grid = <<>>)) =>
        /\ Len(poi_grid) = Len(grid)
        /\ \A k \in 1..Len(grid) :
              /\ poi_grid[k].cell_id = grid[k].cell_id
              /\ poi_grid[k].geometry = grid[k].geometry
              /\ poi_grid[k].count = 0
              /\ poi_grid[k].density_per_km2 = RatZero

----------------------------------------------------------------------------
(* Properties of aggregate_buildings_to_grid *)

\* aggregate_buildings_to_grid has just returned its table
BuildingsAggregated == pc = "building_grid"

BuildingColumns ==
    {"building_count", "building_area_km2", "building_density",
     "footprint_coverage"}

\* C11: called with an empty building set or an empty grid,
\* aggregate_buildings_to_grid returns every cell of the input grid (same
\* row count, same cell_ids, every input column unchanged) with the four
\* building columns present and equal to 0.
C11_EmptyInputZeroFilled ==
    (BuildingsAggregated /\ (buildings = <<>> \/ grid_gdf = <<>>)) =>
        /\ Len(building_grid) = Len(grid_gdf)
        /\ \A i \in 1..Len(grid_gdf) :
              /\ BuildingColumns \subseteq DOMAIN building_grid[i]
              /\ \A f \in DOMAIN grid_gdf[i] :
                    building_grid[i][f] = grid_gdf[i][f]
              /\ building_grid[i].building_count = 0
              /\ building_grid[i].building_area_km2 = RatZero
              /\ building_grid[i].building_density = RatZero
              /\ building_grid[i].footprint_coverage = RatZero

\* An empty building set was aggregated onto a grid of two or more cells
C11_Witness ==
    /\ BuildingsAggregated
    /\ buildings = <<>>
    /\ Len(grid_gdf) >= 2
    /\ Len(building_grid) = Len(grid_gdf)

\* The floor area of the whole building set, km2
TotalBuildingAreaKm2 == SumRat(MapSeq(buildings, BuildingAreaKm2))

BuildingCountOfRow(r) == r.building_count
BuildingAreaOfRow(r) == r.building_area_km2

\* The centroid of every building of the set lies strictly inside the area
\* that the cells of the grid argument cover together
CentroidsInsideGrid ==
    \A i \in 1..Len(buildings) :
        Within(Centroid(buildings[i]),
               UNION {grid_gdf[j].geometry : j \in 1..Len(grid_gdf)})

\* C12: every building is assigned to exactly one cell, so that over the
\* cells building_count sums to the number of buildings and
\* building_area_km2 sums to the total building area.  Stated for the
\* building sets whose centroids all lie inside the gridded area.
C12_EveryBuildingInOneCell ==
    (BuildingsAggregated /\ buildings # <<>> /\ CentroidsInsideGrid) =>
        /\ SumSeq(MapSeq(building_grid, BuildingCountOfRow)) = Len(buildings)
        /\ SumRat(MapSeq(building_grid, BuildingAreaOfRow)) = TotalBuildingAreaKm2

\* The two 500 m cells A (at the origin) and B (east of it) and the one
\* 0.01 km2 building that spans them with its centroid in A
SpanningScenario ==
    /\ BuildingsAggregated
    /\ boundary = <<PolygonOf({<<0, 0>>, <<Step, 0>>})>>
    /\ cell_size_m = Step
    /\ grid_gdf = grid
    /\ buildings = <<SpanningBuilding>>

\* C12, the scenario: the building counts once, with its whole area, on A,
\* and B stays zero
C12_SpanningCounted ==
    SpanningScenario =>
        /\ Len(building_grid) = 2
        /\ \A i \in 1..2 :
              LET r == building_grid[i]
              IN IF <<0, 0>> \in r.geometry
                 THEN r.building_count = 1 /\ r.building_area_km2 = Rat(1, 100)
                 ELSE r.building_count = 0 /\ r.building_area_km2 = RatZero

\* The full, un-clipped area of a cell of the grid argument: its
\* cell_area_km2_full, and for a grid without that column the area of the
\* square of side cell_size_m the cell was clipped from
FullAreaOfCell(r) ==
    IF "cell_area_km2_full" \in DOMAIN r THEN r.cell_area_km2_full
    ELSE FullCellAreaKm2(cell_size_m)

\* C13: in every cell of the output, building_density is building_count
\* over the full cell area and footprint_coverage is building_area_km2 over
\* the full cell area, times 100; never over the clipped area_km2.  Stated
\* for the cells whose full area is not zero.
C13_DenominatorIsFullArea ==
    BuildingsAggregated =>
        \A i \in 1..Len(building_grid) :
            LET r == building_grid[i]
                full == FullAreaOfCell(grid_gdf[i])
                cover == RatDiv(r.building_area_km2, full)
            IN full # RatZero =>
                  /\ r.building_density = RatDiv(Rat(r.building_count, 1), full)
                  /\ r.footprint_coverage = Rat(cover.num * 100, cover.den)

\* C13 on the grids that have the cell_area_km2_full column: the
\* denominator is that column
C13_FullAreaColumnUsed ==
    BuildingsAggregated =>
        \A i \in 1..Len(building_grid) :
            LET r == building_grid[i]
            IN ("cell_area_km2_full" \in DOMAIN r /\ r.cell_area_km2_full # RatZero) =>
                  LET cover == RatDiv(r.building_area_km2, r.cell_area_km2_full)
                  IN /\ r.building_density =
                          RatDiv(Rat(r.building_count, 1), r.cell_area_km2_full)
                     /\ r.footprint_coverage = Rat(cover.num * 100, cover.den)

----------------------------------------------------------------------------
(* Properties of the final table *)

\* Both aggregations have run; building_grid is the final table
Final == pc = "final"

\* C14: in every cell whose density denominator cell_area_km2_full is zero,
\* density_per_km2, building_density and footprint_coverage are all
\* exactly 0 in the final table.
C14_ZeroDenominatorGivesZero ==
    Final =>
        \A i \in 1..Len(building_grid) :
            LET r == building_grid[i]
            IN r.cell_area_km2_full = RatZero =>
                  /\ r.density_per_km2 = RatZero
                  /\ r.building_density = RatZero
                  /\ r.footprint_coverage = RatZero

\* C14, building_density alone: zero on a zero denominator
C14_BuildingDensityGuarded ==
    Final =>
        \A i \in 1..Len(building_grid) :
            building_grid[i].cell_area_km2_full = RatZero =>
                building_grid[i].building_density = RatZero

\* C14, footprint_coverage alone: it is infinite on a zero denominator
\* exactly when the cell has building area, and 0 when it has none
C14_CoverageInfiniteWithArea ==
    Final =>
        \A i \in 1..Len(building_grid) :
            LET r == building_grid[i]
            IN r.cell_area_km2_full = RatZero =>
                  r.footprint_coverage =
                      IF r.building_area_km2 = RatZero THEN RatZero
                      ELSE Rat(1, 0)

GridColumns == {"cell_id", "geometry", "area_km2", "cell_area_km2_full"}

PoiColumns == {"count", "density_per_km2"}

\* The final table has exactly the cells of the grid the run started from,
\* with both column sets, and equals the table of the opposite order
\* (buildings first, then points)
Enriched ==
    /\ Len(building_grid) = Len(grid_gdf)
    /\ \A i \in 1..Len(grid_gdf) :
          /\ \A f \in GridColumns : building_grid[i][f] = grid_gdf[i][f]
          /\ PoiColumns \cup BuildingColumns \subseteq DOMAIN building_grid[i]
    /\ building_grid =
          AggregatePoisToGrid(pois, AggregateBuildingsToGrid(buildings, grid_gdf))

\* C20: for every grid and every pair of feature sets, empty or not,
\* aggregate_pois_to_grid followed by aggregate_buildings_to_grid gives a
\* table with exactly the cells of the grid, carrying both column sets, with
\* the values the opposite order gives.
C20_IndependentEnrichments == Final => Enriched

\* C20 for the runs whose point set is not empty
C20_EnrichedWithPois == (Final /\ pois # <<>>) => Enriched

\* A run with points and buildings on a grid of two or more cells
C20_WithPoisReached ==
    Final /\ pois # <<>> /\ buildings # <<>> /\ Len(grid_gdf) >= 2

----------------------------------------------------------------------------
(* Properties of the classifier *)

Picked == pc = "picked"

\* The candidate key at position i has a value that is present and non-null
HasValue(i) ==
    /\ preferred[i] \in DOMAIN tags
    /\ tags[preferred[i]] \notin {None, NaN}

\* C15: the category is that of the first candidate key, in priority order,
\* whose value is present and non-null: the key alone when the value is the
\* boolean true, "<key>:<value>" otherwise; and it is "unknown" when no
\* candidate key has such a value.
C15_FirstNonNullKey ==
    Picked =>
        IF \E i \in 1..Len(preferred) : HasValue(i)
        THEN LET i == CHOOSE j \in 1..Len(preferred) :
                         HasValue(j) /\ \A h \in 1..(j - 1) : ~HasValue(h)
                 v == tags[preferred[i]]
             IN category = IF v = BoolValue(TRUE) THEN preferred[i]
                           ELSE preferred[i] \o ":" \o
                                   (IF v = StrValue("park") THEN "park" ELSE "False")
        ELSE category = "unknown"

\* The first key is missing, the second is null, the third is the true
\* flag and a later key has an ordinary value: the third key names the
\* category
C15_Witness ==
    /\ Picked
    /\ preferred = LANDUSE_PREFERRED
    /\ "landuse" \notin DOMAIN tags
    /\ "natural" \in DOMAIN tags /\ tags["natural"] = NaN
    /\ "leisure" \in DOMAIN tags /\ tags["leisure"] = BoolValue(TRUE)
    /\ "landcover" \in DOMAIN tags /\ tags["landcover"] = StrValue("park")
    /\ category = "leisure"

\* No candidate key has a value: "unknown"
C15_UnknownReached ==
    /\ Picked
    /\ preferred = POI_PREFERRED
    /\ "amenity" \notin DOMAIN tags
    /\ "leisure" \in DOMAIN tags /\ tags["leisure"] = None
    /\ "landuse" \in DOMAIN tags /\ tags["landuse"] = StrValue("park")
    /\ category = "unknown"

----------------------------------------------------------------------------
(* Properties of validate_boundary and boundary_polygon_wgs84 *)

\* validate_boundary has returned
Validated == pc \in {"validated", "polygon", "ValueError"} /\ vb_report # <<>>

IsPolygonal(g) == g.kind \in {"Polygon", "MultiPolygon"}

\* The input table has a polygon row, and a self-intersecting one
HasPolygon == \E i \in 1..Len(vb_in) : IsPolygonal(vb_in[i])
HasInvalidPolygon ==
    \E i \in 1..Len(vb_in) : IsPolygonal(vb_in[i]) /\ ~vb_in[i].valid

\* Interior rings over all polygon parts of the cleaned table
InteriorRings ==
    LET rings(p) == Cardinality(p.holed)
        ofRow(r) == SumSeq(MapSeq(r.geometry.parts, rings))
    IN SumSeq(MapSeq(vb_out, ofRow))

PolygonReturned == pc = "polygon"

\* C17, the selection: when the union of the boundary is a MultiPolygon the
\* polygon returned is one of its parts, and no part has a larger area
C17_LargestPartReturned ==
    (PolygonReturned /\ Len(UnionPolygons(bp_in)) >= 2) =>
        /\ \E i \in 1..Len(UnionPolygons(bp_in)) :
              bp_out[1] = UnionPolygons(bp_in)[i]
        /\ \A i \in 1..Len(UnionPolygons(bp_in)) :
              PartAreaM2(bp_out[1]) >= PartAreaM2(UnionPolygons(bp_in)[i])

\* The union has two parts, the second larger than the first, and the
\* second was returned
C17_LargestReached ==
    /\ PolygonReturned
    /\ Len(UnionPolygons(bp_in)) = 2
    /\ PartAreaM2(UnionPolygons(bp_in)[1]) < PartAreaM2(UnionPolygons(bp_in)[2])
    /\ bp_out[1] = UnionPolygons(bp_in)[2]

\* The boundary of the grid run as the table boundary_polygon_wgs84 gets
BoundaryGeoms ==
    LET geom(r) == Polygonal(<<Part(r.tiles, {})>>)
    IN MapSeq(boundary, geom)

\* The tiling of make_square_grid starts at the lower left corner of
\* polygon p, and every cell of the grid lies in p
GridOnPolygon(p) ==
    /\ TilingStart(Bnds) = <<TileBounds(p.tiles)[1], TileBounds(p.tiles)[2]>>
    /\ \A k \in 1..Len(grid) : grid[k].geometry \subseteq p.tiles

\* C17: the polygon boundary_polygon_wgs84 picks for a multi-part boundary,
\* a part of the largest area, is also the polygon the grid takes its
\* origin and its extent from.
C17_GridUsesRepresentative ==
    (Returned /\ ~Degenerate) =>
        \E o \in BoundaryPolygonWgs84(BoundaryGeoms) :
            ~o.raised /\ GridOnPolygon(o.polygon[1])

\* boundary_polygon_wgs84 has returned or raised
PolygonCalled == pc \in {"polygon", "ValueError"}

\* C18: when the union of the boundary geometries is neither a Polygon nor
\* a MultiPolygon, boundary_polygon_wgs84 raises ValueError and returns no
\* polygon.
C18_NotPolygonalRaises ==
    (PolygonCalled /\ bp_type \notin {"Polygon", "MultiPolygon"}) =>
        pc = "ValueError" /\ bp_out = <<>>

\* The function was called on a table with one line geometry and raised
C18_Witness ==
    /\ pc = "ValueError"
    /\ bp_in = <<LineGeometry>>
    /\ bp_type = "LineString"
    /\ bp_out = <<>>

\* The function was called on a table without rows and raised
C18_EmptyInputReached ==
    pc = "ValueError" /\ vb_in = <<>> /\ bp_in = <<>> /\ bp_type = "GeometryCollection"

\* `geom.is_empty`
IsEmpty(g) == g.kind # "null" /\ g.parts = <<>>

\* C19: the cleaned boundary has no empty and no missing geometry, and the
\* features entry of the report is the number of its non-empty geometries.
C19_NoEmptyGeometryKept ==
    Validated =>
        /\ \A i \in 1..Len(vb_out) :
              vb_out[i].geometry.kind # "null" /\ ~IsEmpty(vb_out[i].geometry)
        /\ vb_report[1].features =
              Cardinality({i \in 1..Len(vb_out) : ~IsEmpty(vb_out[i].geometry)})

\* C19, the missing geometries: none is kept
C19_NoNullGeometryKept ==
    Validated =>
        /\ \A i \in 1..Len(vb_out) : vb_out[i].geometry.kind # "null"
        /\ vb_report[1].features = Len(vb_out)

\* A table with a missing geometry and a polygon was cleaned
C19_NullDropped ==
    /\ Validated
    /\ Len(vb_in) = 2
    /\ vb_in[1] = NullGeometry
    /\ IsPolygonal(vb_in[2])
    /\ Len(vb_out) = 1

====
